---- MODULE Spec2Model ----
(***************************************************************************)
(* Model of the tetris scaffold: the Color enumeration (colors.hpp), the   *)
(* Board<width, height> class template (board.hpp) and its constructor,    *)
(* whose range-for loop stores Color::Background into every cell of the    *)
(* flat std::array<Color, width * height>.                                 *)
(*                                                                         *)
(* Two objects of the same instantiation Board<width, height> are          *)
(* constructed; their constructors' steps interleave freely.  An object's  *)
(* storage holds indeterminate values until the constructor's loop has     *)
(* stored into it (the member `grid` is default-initialised).              *)
(* Cells are indexed from 0, as in C++.                                    *)
(***************************************************************************)
EXTENDS Integers, Sequences, FiniteSets, TLC

\* Largest number of cells (width * height) of the instantiations explored.
MaxCells == 4

\* The objects constructed.
Boards == {1, 2}

(***************************************************************************)
(* colors.hpp: enum class Color : uint8_t { Red, ..., Background }         *)
(***************************************************************************)
\* The enumerators in declaration order.
Enumerators ==
    <<"Red", "White", "Magenta", "Blue", "Green", "Brown", "Cyan", "Background">>

\* The named piece colours (every enumerator but the sentinel).
PieceNames == {"Red", "White", "Magenta", "Blue", "Green", "Brown", "Cyan"}

\* Mutant: the sentinel given the explicit value 0, which Red already has.
ColorBackgroundZero(name) ==
    IF name = "Background"
    THEN 0
    ELSE ((CHOOSE i \in 1..Len(Enumerators) : Enumerators[i] = name) - 1) % (2 ^ 8)

\* The value of an enumerator: no initialisers are given, so the first is 0
\* and each next one is the previous plus one, stored in a uint8_t.
Color(name) ==
    ((CHOOSE i \in 1..Len(Enumerators) : Enumerators[i] = name) - 1) % (2 ^ 8)

\* The values a uint8_t can hold.
UInt8 == 0..(2 ^ 8 - 1)

\* Values an unwritten cell may be found to hold: the storage is not
\* initialised before the loop, so a cell holds any value; the model draws it
\* from the lowest and the highest piece colour and the sentinel itself.
Indeterminate == {Color("Red"), Color("Cyan"), Color("Background")}

(***************************************************************************)
(* board.hpp: template <size_t width, size_t height> class Board           *)
(***************************************************************************)
\* Mutant: the array sized by the sum of the dimensions.
ArraySizeSum(w, h) == w + h

\* Mutant: a zero-sized array padded to one element.
ArraySizeAtLeastOne(w, h) == IF w * h = 0 THEN 1 ELSE w * h

\* The extent of the member `std::array<Color, width * height> grid`.
ArraySize(w, h) == w * h

\* The template arguments explored: every pair whose product is in bounds,
\* zero dimensions included.
Dimensions ==
    {d \in (0..MaxCells) \X (0..MaxCells) : d[1] * d[2] <= MaxCells}

\* std::array::size(): the number of elements of a flat array.
Size(g) == Cardinality(DOMAIN g)

VARIABLES
    width,      \* template argument `width`
    height,     \* template argument `height`
    grid,       \* grid[b]: the member `grid` of object b, index -> value
    pc,         \* pc[b]: where object b's constructor is
    it,         \* it[b]: the loop's iterator __begin, as an index
    end,        \* end[b]: the loop's iterator __end, as an index
    writes      \* writes[b]: the stores performed so far, <<index, value>>

vars == <<width, height, grid, pc, it, end, writes>>

\* The objects' storage is allocated with the extent of the instantiation and
\* indeterminate contents; both constructors are about to run.
Init ==
    /\ \E d \in Dimensions : width = d[1] /\ height = d[2]
    /\ grid \in [Boards -> [0..(ArraySize(width, height) - 1) -> Indeterminate]]
    /\ pc = [b \in Boards |-> "entry"]
    /\ it = [b \in Boards |-> 0]
    /\ end = [b \in Boards |-> 0]
    /\ writes = [b \in Boards |-> <<>>]

\* Mutant: the constructor validates its dimensions and fails on a zero one.
RangeInitRejectZero(b) ==
    /\ pc[b] = "entry"
    /\ IF Size(grid[b]) = 0
       THEN pc' = [pc EXCEPT ![b] = "failed"] /\ UNCHANGED <<it, end>>
       ELSE /\ it' = [it EXCEPT ![b] = 0]
            /\ end' = [end EXCEPT ![b] = Size(grid[b])]
            /\ pc' = [pc EXCEPT ![b] = "loop"]
    /\ UNCHANGED <<width, height, grid, writes>>

\* for (auto& cell : grid): __begin = grid.begin(), __end = grid.end().
RangeInit(b) ==
    /\ pc[b] = "entry"
    /\ it' = [it EXCEPT ![b] = 0]
    /\ end' = [end EXCEPT ![b] = Size(grid[b])]
    /\ pc' = [pc EXCEPT ![b] = "loop"]
    /\ UNCHANGED <<width, height, grid, writes>>

\* Mutant: `cell == Color::Background;`, a comparison where the store should be.
WriteCompares(b) ==
    /\ pc[b] = "loop"
    /\ it[b] /= end[b]
    /\ it' = [it EXCEPT ![b] = it[b] + 1]
    /\ UNCHANGED <<width, height, grid, pc, end, writes>>

\* Mutant: `cell = Color{};`, which stores the first enumerator.
WriteValueInit(b) ==
    /\ pc[b] = "loop"
    /\ it[b] /= end[b]
    /\ grid' = [grid EXCEPT ![b][it[b]] = Color("Red")]
    /\ writes' = [writes EXCEPT ![b] = Append(writes[b], <<it[b], Color("Red")>>)]
    /\ it' = [it EXCEPT ![b] = it[b] + 1]
    /\ UNCHANGED <<width, height, pc, end>>

\* Mutant: `static` storage, one array shared by every object.
WriteShared(b) ==
    /\ pc[b] = "loop"
    /\ it[b] /= end[b]
    /\ grid' = [c \in Boards |-> [grid[c] EXCEPT ![it[b]] = Color("Background")]]
    /\ writes' = [writes EXCEPT ![b] = Append(writes[b], <<it[b], Color("Background")>>)]
    /\ it' = [it EXCEPT ![b] = it[b] + 1]
    /\ UNCHANGED <<width, height, pc, end>>

\* Mutant: an index loop stepping by two, `for (i = 0; i < size; i += 2)`.
WriteStepTwo(b) ==
    /\ pc[b] = "loop"
    /\ it[b] < end[b]
    /\ grid' = [grid EXCEPT ![b][it[b]] = Color("Background")]
    /\ writes' = [writes EXCEPT ![b] = Append(writes[b], <<it[b], Color("Background")>>)]
    /\ it' = [it EXCEPT ![b] = it[b] + 2]
    /\ UNCHANGED <<width, height, pc, end>>

\* One iteration: __begin != __end; cell = Color::Background; ++__begin.
Write(b) ==
    /\ pc[b] = "loop"
    /\ it[b] /= end[b]
    /\ grid' = [grid EXCEPT ![b][it[b]] = Color("Background")]
    /\ writes' = [writes EXCEPT ![b] = Append(writes[b], <<it[b], Color("Background")>>)]
    /\ it' = [it EXCEPT ![b] = it[b] + 1]
    /\ UNCHANGED <<width, height, pc, end>>

\* Mutant: the loop stops one element short of the end.
ReturnOneShort(b) ==
    /\ pc[b] = "loop"
    /\ it[b] = end[b] \/ it[b] = end[b] - 1
    /\ pc' = [pc EXCEPT ![b] = "constructed"]
    /\ UNCHANGED <<width, height, grid, it, end, writes>>

\* __begin == __end: the loop is left and the constructor returns.
Return(b) ==
    /\ pc[b] = "loop"
    /\ it[b] = end[b]
    /\ pc' = [pc EXCEPT ![b] = "constructed"]
    /\ UNCHANGED <<width, height, grid, it, end, writes>>

\* A step of the constructor of object b.
Construct(b) == RangeInit(b) \/ Write(b) \/ Return(b)

Next == \E b \in Boards : RangeInit(b) \/ Write(b) \/ Return(b)

Spec == Init /\ [][Next]_vars

\* A constructor that has started keeps running until it returns.
FairSpec == Spec /\ \A b \in Boards : WF_vars(Construct(b))

(***************************************************************************)
(* Properties                                                              *)
(***************************************************************************)
Background == Color("Background")

PieceColors == {Color(n) : n \in PieceNames}

Constructed(b) == pc[b] = "constructed"

AllBackground(b) == \A i \in DOMAIN grid[b] : grid[b][i] = Background

\* The indices stored to by object b's constructor, in the order of the stores.
WrittenIndices(b) == [k \in 1..Len(writes[b]) |-> writes[b][k][1]]

\* C1: once the constructor of Board<W, H> has returned, every cell at an
\* index in [0, W*H) equals Color::Background, and so equals none of the seven
\* piece colours.
C1_AllCellsBackground ==
    \A b \in Boards :
        Constructed(b) =>
            \A i \in 0..(width * height - 1) :
                /\ i \in DOMAIN grid[b]
                /\ grid[b][i] = Color("Background")
                /\ \A n \in PieceNames : grid[b][i] /= Color(n)

\* A Board<2, 2> whose constructor has returned after its four stores.
C1_Witness ==
    \E b \in Boards :
        /\ Constructed(b)
        /\ width = 2 /\ height = 2
        /\ Len(writes[b]) = 4
        /\ AllBackground(b)

\* C2: the backing sequence of a Board<W, H> has exactly W*H elements, at the
\* indices 0 .. W*H-1, in every state during and after construction, and no
\* step of the constructor changes that length.
C2_SizeIsProduct ==
    /\ [](\A b \in Boards :
            /\ Size(grid[b]) = width * height
            /\ DOMAIN grid[b] = 0..(width * height - 1))
    /\ [][\A b \in Boards : Size(grid'[b]) = Size(grid[b])]_vars

\* A Board<1, 3> in the middle of its loop, with three elements.
C2_Witness ==
    \E b \in Boards :
        /\ pc[b] = "loop" /\ it[b] = 2
        /\ width = 1 /\ height = 3
        /\ Size(grid[b]) = 3

\* C3: Color has exactly eight pairwise distinct values, each of which fits an
\* unsigned 8-bit integer, and Background differs from each of the seven piece
\* colours, so that a cell holding Background holds no piece colour.
C3_ColorsDistinct ==
    /\ Len(Enumerators) = 8
    /\ Cardinality({Color(Enumerators[i]) : i \in 1..Len(Enumerators)}) = 8
    /\ \A i \in 1..Len(Enumerators) : Color(Enumerators[i]) \in UInt8
    /\ \A n \in PieceNames : Color("Background") /= Color(n)
    /\ Cardinality(PieceNames) = 7
    /\ \A b \in Boards : \A i \in DOMAIN grid[b] :
          grid[b][i] = Color("Background") => grid[b][i] \notin PieceColors

\* A board holding the sentinel in one cell and a piece colour in another:
\* the two are told apart by comparing the cells' values.
C3_Witness ==
    \E b \in Boards : \E i, j \in DOMAIN grid[b] :
        /\ grid[b][i] = Color("Background")
        /\ grid[b][j] = Color("Cyan")
        /\ grid[b][j] \in PieceColors
        /\ grid[b][i] /= grid[b][j]

\* C4: two boards of the same W, H are independent: in any interleaving, a
\* step in which one board's constructor stores a cell leaves every cell of
\* the other board unchanged, and once both have returned both are
\* all-Background.
C4_BoardsIndependent ==
    /\ [][\A b, c \in Boards :
            (b /= c /\ Len(writes'[b]) > Len(writes[b])) => grid'[c] = grid[c]]_vars
    /\ []((\A b \in Boards : Constructed(b)) => \A b \in Boards : AllBackground(b))

\* The two constructors interleaved: one has stored indices 0 and 1, the
\* other only index 0, and the other's cell 1 still holds its old value.
C4_Witness ==
    \E b, c \in Boards :
        /\ b /= c
        /\ pc[b] = "loop" /\ it[b] = 2
        /\ pc[c] = "loop" /\ it[c] = 1
        /\ grid[c][1] = Color("Red")

\* C5: construction has no failure path, for zero dimensions too: the
\* constructor is only ever at its entry, in its loop or returned, and until
\* it has returned it can always take its next step.
C5_NoFailurePath ==
    \A b \in Boards :
        /\ pc[b] \in {"entry", "loop", "constructed"}
        /\ ~Constructed(b) => ENABLED Construct(b)

\* Both constructors of a Board<W, 0>, W > 0, have returned.
C5_Witness ==
    /\ width > 0 /\ height = 0
    /\ \A b \in Boards : Constructed(b)

\* C6: after the constructor has returned the board never changes: it stays
\* constructed, its cells stay what they were, which is Background, and its
\* dimensions stay those it was created with.
C6_ConstructedIsStable ==
    /\ [](\A b \in Boards :
            Constructed(b) => AllBackground(b) /\ Size(grid[b]) = width * height)
    /\ [][\A b \in Boards :
            Constructed(b) =>
                /\ pc'[b] = "constructed"
                /\ grid'[b] = grid[b]
                /\ width' = width /\ height' = height]_vars

\* Both boards of three cells constructed: the second returned in a step
\* taken after the first had returned.
C6_Witness ==
    /\ width * height = 3
    /\ \A b \in Boards : Constructed(b) /\ AllBackground(b)

\* The instantiation has a zero dimension.
ZeroDimension == width = 0 \/ height = 0

\* Every constructor has returned and none has stored anything.
ConstructedWithoutStore == \A b \in Boards : Constructed(b) /\ writes[b] = <<>>

\* C7: a board with a zero dimension is accepted: its backing sequence has no
\* element, its constructor performs no store, is never in a failed state, can
\* always proceed until it has returned, and does return.
C7_ZeroDimension ==
    /\ [](ZeroDimension =>
            \A b \in Boards :
                /\ Size(grid[b]) = 0
                /\ writes[b] = <<>>
                /\ ~ENABLED Write(b)
                /\ pc[b] /= "failed"
                /\ ~Constructed(b) => ENABLED Construct(b))
    /\ ZeroDimension ~> ConstructedWithoutStore

\* A constructed Board<0, 0> on which no store was performed.
C7_Witness ==
    \E b \in Boards :
        /\ width = 0 /\ height = 0
        /\ Constructed(b)
        /\ writes[b] = <<>>
        /\ Size(grid[b]) = 0

\* C8: the fill loop terminates: every constructor eventually returns, the
\* stores performed so far are always to the indices 0, 1, 2, ... in turn
\* (none twice, none skipped), and a returned constructor has performed
\* exactly W*H of them.
C8_LoopTerminates ==
    /\ <>(\A b \in Boards : Constructed(b))
    /\ [](\A b \in Boards :
            /\ WrittenIndices(b) = [k \in 1..Len(writes[b]) |-> k - 1]
            /\ Constructed(b) => Len(writes[b]) = width * height)

\* A Board<4, 1> whose constructor has returned after stores to 0, 1, 2, 3.
C8_Witness ==
    \E b \in Boards :
        /\ width = 4 /\ height = 1
        /\ Constructed(b)
        /\ WrittenIndices(b) = <<0, 1, 2, 3>>

\* C9: the loop invariant: the k stores performed so far went to increasing
\* indices, the cells at 0 .. k-1 all equal Background, every store stored
\* Background and no piece colour, and no step changes a cell already stored.
C9_LoopInvariant ==
    /\ [](\A b \in Boards :
            /\ Len(writes[b]) = it[b]
            /\ \A i \in 0..(it[b] - 1) : grid[b][i] = Color("Background")
            /\ \A k \in 1..Len(writes[b]) :
                  /\ writes[b][k][2] = Color("Background")
                  /\ writes[b][k][2] \notin PieceColors
            /\ \A k, l \in 1..Len(writes[b]) :
                  k < l => writes[b][k][1] < writes[b][l][1])
    /\ [][\A b \in Boards : \A i \in 0..(it[b] - 1) :
            grid'[b][i] = grid[b][i]]_vars

\* An intermediate state of the loop over four cells: two stored, two still
\* holding piece colours.
C9_Witness ==
    \E b \in Boards :
        /\ pc[b] = "loop" /\ it[b] = 2
        /\ Size(grid[b]) = 4
        /\ grid[b][0] = Color("Background") /\ grid[b][1] = Color("Background")
        /\ grid[b][2] = Color("Red") /\ grid[b][3] = Color("Cyan")

====
